---- MODULE Spec2Model ----
(***************************************************************************)
(* Model of src/app.py: the Bitcoin node tracker.                          *)
(*                                                                         *)
(* The program is a Streamlit script.  Every run of main constructs a      *)
(* BitcoinNodeAnalyzer, which reloads network_data.json, shows the BTC     *)
(* price, optionally runs update_network_data (button), and renders the    *)
(* tor trend and the network signal from the history.                      *)
(*                                                                         *)
(* Representation of Python values:                                        *)
(*   - a value whose type varies in the code (None / number / str / dict)  *)
(*     is a record tagged with its Python type, [type |-> ..., val |-> ..];*)
(*   - a float that the code computes as a quotient of two integers is the *)
(*     exact fraction <<num, den>> in lowest terms, den > 0.  The counts   *)
(*     of the model are far below 2^53, so two floats are equal exactly    *)
(*     when their fractions are;                                           *)
(*   - a str of digits (a timestamp, a number inside a JSON text) is the   *)
(*     sequence of its decimal digits;                                     *)
(*   - time is counted in hours.                                           *)
(*                                                                         *)
(* Comparisons with the thresholds 0.01 and 0.001 and round() are exact    *)
(* on the fractions; a float computation differs only for values within    *)
(* rounding error of a threshold or of a tie, which the drawn inputs do    *)
(* not produce.                                                            *)
(*                                                                         *)
(* Specifications:                                                         *)
(*   Spec      the script runs on a small stored history: construct,       *)
(*             update button, page, clock;                                 *)
(*   SpecCap   the same runs on stored histories of 1007 and 1008 entries; *)
(*   SpecCalc  the page, and with it the trend functions, over every       *)
(*             drawn history;                                              *)
(*   SpecSignal the page over a baseline and a current snapshot whose      *)
(*             totals are zero, small, or large and close;                 *)
(*   SpecLookup the page over stored histories of up to three entries,     *)
(*             entries with an unreadable timestamp included;              *)
(*   SpecPrice get_btc_price over every combination of provider outcomes.  *)
(***************************************************************************)
EXTENDS Integers, Sequences, FiniteSets, TLC

VARIABLES
    file,             \* network_data.json on disk
    historical_data,  \* analyzer.historical_data
    now,              \* datetime.now(), in hours
    pc,               \* position of the script run (main)
    steps,            \* number of update_network_data calls so far
    last,             \* the last operation: its inputs and its outcome
    view,             \* what the last render of main put on the page
    quote             \* get_btc_price: provider outcomes, calls made, result

vars == <<file, historical_data, now, pc, steps, last, view, quote>>

----------------------------------------------------------------------------
\* Bounds of the model

\* update_network_data calls explored per behaviour
MaxSteps == 2
\* clock advances explored per behaviour
MaxTicks == 2
\* length of the histories drawn for the trend functions
MaxLen == 2
\* length of the histories drawn for the baseline lookups
MaxLookupLen == 3

\* hours per clock advance
TickHours == 12
\* the 'total_nodes' values a provider response may carry
TotalValues == {0, 2, 3}

----------------------------------------------------------------------------
\* Program constants

\* len(self.historical_data) > 1008 ; self.historical_data[-1008:]
HistoryCap == 1008
\* timedelta(hours=24)
BaselineHours == 24

----------------------------------------------------------------------------
\* Numbers

Abs(x) == IF x < 0 THEN 0 - x ELSE x

RECURSIVE GCD(_, _)
GCD(a, b) == IF b = 0 THEN a ELSE GCD(b, a % b)

\* the float n / d (d > 0), as a fraction in lowest terms
Frac(n, d) ==
    LET g == GCD(Abs(n), d)
    IN  <<n \div g, d \div g>>

Zero == <<0, 1>>

FracLess(x, y) == x[1] * y[2] < y[1] * x[2]

\* (x - y) / y for y > 0
RelChange(x, y) == Frac(x[1] * y[2] - y[1] * x[2], x[2] * y[1])

FracMul(x, y) == Frac(x[1] * y[1], x[2] * y[2])

\* round(x, k) for scale = 10^k: the nearest multiple of 1/scale, ties to even
Round(x, scale) ==
    LET n == Abs(x[1]) * scale
        q == n \div x[2]
        r == n % x[2]
        up == (2 * r > x[2]) \/ (2 * r = x[2] /\ q % 2 = 1)
        m == IF up THEN q + 1 ELSE q
    IN  Frac(IF x[1] < 0 THEN 0 - m ELSE m, scale)

\* str(n) for an integer n >= 0: its decimal digits
RECURSIVE ToDigits(_)
ToDigits(n) == IF n < 10 THEN <<n>> ELSE Append(ToDigits(n \div 10), n % 10)

IsDigits(s) == Len(s) > 0 /\ \A i \in 1..Len(s) : s[i] \in 0..9

\* int(s) for a str of digits
RECURSIVE FromDigits(_)
FromDigits(s) ==
    IF Len(s) = 0 THEN 0
    ELSE 10 * FromDigits(SubSeq(s, 1, Len(s) - 1)) + s[Len(s)]

----------------------------------------------------------------------------
\* Python values

NoneVal == [type |-> "NoneType"]
PyStr(s) == [type |-> "str", val |-> s]
PyInt(n) == [type |-> "int", val |-> n]
PyFloat(x) == [type |-> "float", val |-> x]
PyDict(d) == [type |-> "dict", val |-> d]
PyList(s) == [type |-> "list", val |-> s]

IsNumber(v) == v.type \in {"int", "float"}

\* datetime.isoformat() and datetime.fromisoformat()
IsoFormat(t) == ToDigits(t)

FromIsoFormat(s) ==
    IF IsDigits(s) THEN [ok |-> TRUE, time |-> FromDigits(s)]
    ELSE [ok |-> FALSE, time |-> 0]

----------------------------------------------------------------------------
\* The Bitnodes provider (requests.get + response.json)

\* one entry of data['nodes']: whether the address holds '.onion', and the
\* node_info value: null, a non-empty list, or a non-empty list whose text
\* holds '.onion'
NodeKinds ==
    [onion_address : BOOLEAN, node_info : {"null", "list", "onion_list"}]

RECURSIVE SeqsUpTo(_, _)
SeqsUpTo(S, n) ==
    IF n = 0 THEN {<<>>}
    ELSE LET shorter == SeqsUpTo(S, n - 1)
         IN  shorter \cup {Append(s, x) : s \in {t \in shorter : Len(t) = n - 1}, x \in S}

\* what requests.get / raise_for_status / response.json / data[...] can raise
FetchFailures ==
    {"timeout", "connection_error", "http_error", "invalid_json", "missing_key"}

\* the 'nodes' dicts drawn for the trend functions: up to two entries
NodeLists == SeqsUpTo(NodeKinds, 2)

\* the 'nodes' dicts of the responses to the button: none, one active tor
\* node, an active plain node and a silent tor node, three active tor nodes
ResponseNodes ==
    {<<>>,
     <<[onion_address |-> TRUE, node_info |-> "list"]>>,
     <<[onion_address |-> FALSE, node_info |-> "list"],
       [onion_address |-> TRUE, node_info |-> "null"]>>,
     <<[onion_address |-> TRUE, node_info |-> "list"],
       [onion_address |-> TRUE, node_info |-> "list"],
       [onion_address |-> FALSE, node_info |-> "onion_list"]>>}

Payloads ==
    [kind : {"ok"}, total_nodes : TotalValues, nodes : ResponseNodes]

Responses ==
    [kind : FetchFailures, total_nodes : {0}, nodes : {<<>>}] \cup Payloads

\* node_info and isinstance(node_info, list) and len(node_info) > 0
IsActive(node) == node.node_info \in {"list", "onion_list"}

\* '.onion' in str(node_address) or '.onion' in str(node_info)
IsTor(node) == node.onion_address \/ node.node_info = "onion_list"

RECURSIVE CountNodes(_, _, _)
CountNodes(nodes, i, acc) ==
    IF i > Len(nodes) THEN acc
    ELSE CountNodes(nodes, i + 1,
             [active_nodes |-> acc.active_nodes + (IF IsActive(nodes[i]) THEN 1 ELSE 0),
              tor_nodes |-> acc.tor_nodes + (IF IsTor(nodes[i]) THEN 1 ELSE 0)])

\* the dict fetch_node_data builds from a parsed response at time t
Snapshot(total_nodes, nodes, t) ==
    LET c == CountNodes(nodes, 1, [active_nodes |-> 0, tor_nodes |-> 0])
    IN  [timestamp |-> IsoFormat(t),
         total_nodes |-> total_nodes,
         active_nodes |-> c.active_nodes,
         tor_nodes |-> c.tor_nodes,
         tor_percentage |->
             IF total_nodes > 0 THEN Frac(c.tor_nodes * 100, total_nodes) ELSE Zero,
         active_ratio |->
             IF total_nodes > 0 THEN Frac(c.active_nodes, total_nodes) ELSE Zero]

\* a fetch that answers a failure with a made-up snapshot
fetch_node_data_fallback(resp, t) ==
    PyDict(Snapshot(resp.total_nodes, resp.nodes, t))

\* fetch_node_data: the snapshot, or None after any exception
fetch_node_data(resp, t) ==
    IF resp.kind = "ok"
    THEN PyDict(Snapshot(resp.total_nodes, resp.nodes, t))
    ELSE NoneVal

\* the calls of fetch_node_data at time t: how the provider answered, and
\* what the call returned
FetchCases(t) ==
    {[response |-> resp.kind, current_data |-> fetch_node_data(resp, t)] :
        resp \in Responses}

----------------------------------------------------------------------------
\* The data file: json.dump and json.load
\*
\* A JSON text is a sequence of tokens.  A snapshot object is one token
\* whose fields are the texts of its values: digits for an integer and for
\* the timestamp, numerator and denominator digits for a float.

OpenList == [tok |-> "["]
CloseList == [tok |-> "]"]
OpenDict == [tok |-> "{"]
CloseDict == [tok |-> "}"]

FloatRepr(x) == <<ToDigits(x[1]), ToDigits(x[2])>>

ObjectToken(s) ==
    [tok |-> "object",
     timestamp |-> s.timestamp,
     total_nodes |-> ToDigits(s.total_nodes),
     active_nodes |-> ToDigits(s.active_nodes),
     tor_nodes |-> ToDigits(s.tor_nodes),
     tor_percentage |-> FloatRepr(s.tor_percentage),
     active_ratio |-> FloatRepr(s.active_ratio)]

ParseFloat(r) == <<FromDigits(r[1]), FromDigits(r[2])>>

\* a parse that reads tor_percentage from the active_ratio text
ParseObjectMixed(o) ==
    [timestamp |-> o.timestamp,
     total_nodes |-> FromDigits(o.total_nodes),
     active_nodes |-> FromDigits(o.active_nodes),
     tor_nodes |-> FromDigits(o.tor_nodes),
     tor_percentage |-> ParseFloat(o.active_ratio),
     active_ratio |-> ParseFloat(o.active_ratio)]

ParseObject(o) ==
    [timestamp |-> o.timestamp,
     total_nodes |-> FromDigits(o.total_nodes),
     active_nodes |-> FromDigits(o.active_nodes),
     tor_nodes |-> FromDigits(o.tor_nodes),
     tor_percentage |-> ParseFloat(o.tor_percentage),
     active_ratio |-> ParseFloat(o.active_ratio)]

\* json.dump(self.historical_data, f, indent=2) for a list of snapshots
json_dump(items) ==
    <<OpenList>> \o [i \in 1..Len(items) |-> ObjectToken(items[i])] \o <<CloseList>>

\* json.load(f): the parsed value, or an exception (ok = FALSE)
json_load(text) ==
    IF /\ Len(text) >= 2
       /\ text[1] = OpenList
       /\ text[Len(text)] = CloseList
       /\ \A i \in 2..(Len(text) - 1) : text[i].tok = "object"
    THEN [ok |-> TRUE,
          value |-> PyList([i \in 1..(Len(text) - 2) |-> ParseObject(text[i + 1])])]
    ELSE IF text = <<OpenDict, CloseDict>>
    THEN [ok |-> TRUE, value |-> PyDict(<<>>)]
    ELSE [ok |-> FALSE, value |-> NoneVal]

MissingFile == [state |-> "missing", text |-> <<>>]
UnreadableFile == [state |-> "unreadable", text |-> <<>>]
TextFile(text) == [state |-> "present", text |-> text]

\* load_historical_data: the new value of self.historical_data
load_historical_data(f) ==
    IF f.state = "missing" THEN PyList(<<>>)
    ELSE IF f.state = "unreadable" THEN PyList(<<>>)
    ELSE LET r == json_load(f.text)
         IN  IF r.ok THEN r.value ELSE PyList(<<>>)

\* how open(..., 'w') / json.dump can end
WriteOutcomes == {"written", "open_fails", "dump_fails"}

\* what a dump that fails part-way leaves of the text
Truncated(text) == SubSeq(text, 1, Len(text) - 1)

\* save_historical_data: the file afterwards; every exception is swallowed
save_historical_data(f, data, outcome) ==
    IF outcome = "written" THEN TextFile(json_dump(data.val))
    ELSE IF outcome = "open_fails" THEN f
    ELSE TextFile(Truncated(json_dump(data.val)))

----------------------------------------------------------------------------
\* The baseline lookups

\* a loop body that lets a later entry win a tie
StepTotalLatest(items, i, target_time, acc) ==
    LET p == FromIsoFormat(items[i].timestamp)
        time_diff == Abs(p.time - target_time)
    IN  IF p.ok /\ (acc.closest = 0 \/ time_diff <= acc.min_time_diff)
        THEN [closest |-> i, min_time_diff |-> time_diff]
        ELSE acc

\* one pass of the loop body of get_previous_total_nodes for items[i]; acc is
\* (closest_snapshot, min_time_diff), index 0 standing for None and inf
StepTotal(items, i, target_time, acc) ==
    LET p == FromIsoFormat(items[i].timestamp)
        time_diff == Abs(p.time - target_time)
    IN  IF p.ok /\ (acc.closest = 0 \/ time_diff < acc.min_time_diff)
        THEN [closest |-> i, min_time_diff |-> time_diff]
        ELSE acc

\* the loop over items[lo..hi] in order.  The range is split in halves, and
\* the first half's result is read (its index is never negative) before the
\* second half runs, to keep the evaluation shallow on long histories
RECURSIVE ScanTotal(_, _, _, _, _)
ScanTotal(items, lo, hi, target_time, acc) ==
    IF lo > hi THEN acc
    ELSE IF lo = hi THEN StepTotal(items, lo, target_time, acc)
    ELSE LET mid == (lo + hi) \div 2
             first == ScanTotal(items, lo, mid, target_time, acc)
         IN  IF first.closest >= 0
             THEN ScanTotal(items, mid + 1, hi, target_time, first)
             ELSE first

\* the same for get_previous_tor_percentage
StepTor(items, i, target_time, acc) ==
    LET p == FromIsoFormat(items[i].timestamp)
        time_diff == Abs(p.time - target_time)
    IN  IF p.ok /\ (acc.closest = 0 \/ time_diff < acc.min_time_diff)
        THEN [closest |-> i, min_time_diff |-> time_diff]
        ELSE acc

RECURSIVE ScanTor(_, _, _, _, _)
ScanTor(items, lo, hi, target_time, acc) ==
    IF lo > hi THEN acc
    ELSE IF lo = hi THEN StepTor(items, lo, target_time, acc)
    ELSE LET mid == (lo + hi) \div 2
             first == ScanTor(items, lo, mid, target_time, acc)
         IN  IF first.closest >= 0
             THEN ScanTor(items, mid + 1, hi, target_time, first)
             ELSE first

NoneYet == [closest |-> 0, min_time_diff |-> 0]

get_previous_total_nodes(items, t) ==
    IF Len(items) < 2 THEN NoneVal
    ELSE LET k == ScanTotal(items, 1, Len(items) - 1, t - BaselineHours, NoneYet).closest
         IN  IF k = 0 THEN NoneVal ELSE PyInt(items[k].total_nodes)

get_previous_tor_percentage(items, t) ==
    IF Len(items) < 2 THEN NoneVal
    ELSE LET k == ScanTor(items, 1, Len(items) - 1, t - BaselineHours, NoneYet).closest
         IN  IF k = 0 THEN NoneVal ELSE PyFloat(items[k].tor_percentage)

----------------------------------------------------------------------------
\* The trend functions

\* signal > 0.01 / signal < -0.01
SignalThreshold == <<1, 100>>
\* tor_trend > 0.001 / tor_trend < -0.001
TorThreshold == <<1, 1000>>

Neg(x) == <<0 - x[1], x[2]>>

Suggestion(signal) ==
    IF FracLess(SignalThreshold, signal) THEN "BUY"
    ELSE IF FracLess(signal, Neg(SignalThreshold)) THEN "SELL"
    ELSE "SIDEWAYS"

\* a bias whose first comparison is not strict and has no threshold
BiasNoThreshold(tor_trend) ==
    IF ~FracLess(tor_trend, Zero) THEN "BEARISH (Sell Bias)"
    ELSE IF FracLess(tor_trend, Neg(TorThreshold)) THEN "BULLISH (Buy Bias)"
    ELSE "NEUTRAL"

Bias(tor_trend) ==
    IF FracLess(TorThreshold, tor_trend) THEN "BEARISH (Sell Bias)"
    ELSE IF FracLess(tor_trend, Neg(TorThreshold)) THEN "BULLISH (Buy Bias)"
    ELSE "NEUTRAL"

\* a network signal whose trend is taken from the current total back to the
\* previous one
calculate_network_signal_reversed(items, current_data, t) ==
    LET previous_total == get_previous_total_nodes(items, t)
    IN  IF previous_total = NoneVal \/ previous_total.val = 0
        THEN [active_nodes |-> PyInt(current_data.active_nodes),
              total_nodes |-> PyInt(current_data.total_nodes),
              previous_total |-> PyStr("No previous data"),
              active_ratio |-> PyFloat(current_data.active_ratio),
              trend |-> PyInt(0),
              signal |-> PyInt(0),
              suggestion |-> "INSUFFICIENT_DATA"]
        ELSE LET active_ratio == current_data.active_ratio
                 trend == Frac(previous_total.val - current_data.total_nodes,
                               previous_total.val)
                 signal == FracMul(active_ratio, trend)
             IN  [active_nodes |-> PyInt(current_data.active_nodes),
                  total_nodes |-> PyInt(current_data.total_nodes),
                  previous_total |-> previous_total,
                  active_ratio |-> PyFloat(Round(active_ratio, 10000)),
                  trend |-> PyFloat(Round(trend, 10000)),
                  signal |-> PyFloat(Round(signal, 10000)),
                  suggestion |-> Suggestion(signal)]

calculate_network_signal(items, current_data, t) ==
    LET previous_total == get_previous_total_nodes(items, t)
    IN  IF previous_total = NoneVal \/ previous_total.val = 0
        THEN [active_nodes |-> PyInt(current_data.active_nodes),
              total_nodes |-> PyInt(current_data.total_nodes),
              previous_total |-> PyStr("No previous data"),
              active_ratio |-> PyFloat(current_data.active_ratio),
              trend |-> PyInt(0),
              signal |-> PyInt(0),
              suggestion |-> "INSUFFICIENT_DATA"]
        ELSE LET active_ratio == current_data.active_ratio
                 trend == Frac(current_data.total_nodes - previous_total.val,
                               previous_total.val)
                 signal == FracMul(active_ratio, trend)
             IN  [active_nodes |-> PyInt(current_data.active_nodes),
                  total_nodes |-> PyInt(current_data.total_nodes),
                  previous_total |-> previous_total,
                  active_ratio |-> PyFloat(Round(active_ratio, 10000)),
                  trend |-> PyFloat(Round(trend, 10000)),
                  signal |-> PyFloat(Round(signal, 10000)),
                  suggestion |-> Suggestion(signal)]

\* a tor trend that reports NEUTRAL when it has no baseline
calculate_tor_trend_neutral(items, current_tor_percentage, t) ==
    LET previous_tor_percentage == get_previous_tor_percentage(items, t)
    IN  IF previous_tor_percentage = NoneVal \/ previous_tor_percentage.val = Zero
        THEN [previous_tor |-> PyStr("No data"),
              current_tor |-> PyFloat(current_tor_percentage),
              tor_trend |-> PyInt(0),
              bias |-> "NEUTRAL"]
        ELSE LET tor_trend == RelChange(current_tor_percentage,
                                        previous_tor_percentage.val)
             IN  [previous_tor |-> PyFloat(Round(previous_tor_percentage.val, 100)),
                  current_tor |-> PyFloat(Round(current_tor_percentage, 100)),
                  tor_trend |-> PyFloat(Round(FracMul(tor_trend, <<100, 1>>), 100)),
                  bias |-> Bias(tor_trend)]

calculate_tor_trend(items, current_tor_percentage, t) ==
    LET previous_tor_percentage == get_previous_tor_percentage(items, t)
    IN  IF previous_tor_percentage = NoneVal \/ previous_tor_percentage.val = Zero
        THEN [previous_tor |-> PyStr("No data"),
              current_tor |-> PyFloat(current_tor_percentage),
              tor_trend |-> PyInt(0),
              bias |-> "INSUFFICIENT_DATA"]
        ELSE LET tor_trend == RelChange(current_tor_percentage,
                                        previous_tor_percentage.val)
             IN  [previous_tor |-> PyFloat(Round(previous_tor_percentage.val, 100)),
                  current_tor |-> PyFloat(Round(current_tor_percentage, 100)),
                  tor_trend |-> PyFloat(Round(FracMul(tor_trend, <<100, 1>>), 100)),
                  bias |-> Bias(tor_trend)]

----------------------------------------------------------------------------
\* update_network_data

\* a trim that keeps the oldest entries instead of the newest
KeepFirst(items) ==
    IF Len(items) > HistoryCap THEN SubSeq(items, 1, HistoryCap) ELSE items

\* self.historical_data[-1008:] when len(self.historical_data) > 1008
KeepLast(items) ==
    IF Len(items) > HistoryCap
    THEN SubSeq(items, Len(items) - HistoryCap + 1, Len(items))
    ELSE items

\* an update whose save does not catch the write's exception
update_network_data_unguarded(data, f, current_data, outcome) ==
    IF current_data = NoneVal
    THEN [ret |-> FALSE, raised |-> FALSE, saved |-> FALSE,
          historical_data |-> data, file |-> f]
    ELSE IF data.type # "list"
    THEN [ret |-> FALSE, raised |-> TRUE, saved |-> FALSE,
          historical_data |-> data, file |-> f]
    ELSE LET kept == PyList(KeepLast(Append(data.val, current_data.val)))
         IN  [ret |-> outcome = "written", raised |-> outcome # "written",
              saved |-> TRUE,
              historical_data |-> kept,
              file |-> save_historical_data(f, kept, outcome)]

\* the call's outcome, given what self.fetch_node_data() returned: its return
\* value, whether it raised, whether it called save_historical_data, and the
\* history and the file afterwards.  A history that is no list (json.load gave
\* a dict) has no append: AttributeError.
update_network_data(data, f, current_data, outcome) ==
    IF current_data = NoneVal
    THEN [ret |-> FALSE, raised |-> FALSE, saved |-> FALSE,
          historical_data |-> data, file |-> f]
    ELSE IF data.type # "list"
    THEN [ret |-> FALSE, raised |-> TRUE, saved |-> FALSE,
          historical_data |-> data, file |-> f]
    ELSE LET kept == PyList(KeepLast(Append(data.val, current_data.val)))
         IN  [ret |-> TRUE, raised |-> FALSE, saved |-> TRUE,
              historical_data |-> kept,
              file |-> save_historical_data(f, kept, outcome)]

----------------------------------------------------------------------------
\* main: the page

NoView ==
    [status |-> "none", tor_trend_data |-> NoneVal, signal_data |-> NoneVal,
     bias_text |-> "", signal_text |-> ""]

\* main, lines 564-575
BiasText(bias) ==
    IF bias = "BEARISH (Sell Bias)" THEN "SELL BIAS"
    ELSE IF bias = "BULLISH (Buy Bias)" THEN "BUY BIAS"
    ELSE "NEUTRAL"

\* a signal line that shows every suggestion but BUY as a sell
SignalTextSell(suggestion) ==
    IF suggestion = "BUY" THEN "STRONG BUY" ELSE "STRONG SELL"

\* main, lines 605-616
SignalText(suggestion) ==
    IF suggestion = "BUY" THEN "STRONG BUY"
    ELSE IF suggestion = "SELL" THEN "STRONG SELL"
    ELSE "NEUTRAL"

\* the format specs ':,' ':.4f' ':+.4f' ':+.2f' accept numbers only
FormatsAsNumber(v) == IsNumber(v)

\* main from 'col1, col2 = st.columns([1, 1])' to its end: the page for the
\* analyzer's history at time t.  An exception ends the script run; what
\* was put on the page before stays.
render(data, t) ==
    IF Len(data.val) = 0
    THEN [NoView EXCEPT !.status = "empty"]
    ELSE LET current_data == data.val[Len(data.val)]
             tor_trend_data ==
                 calculate_tor_trend(data.val, current_data.tor_percentage, t)
             signal_data == calculate_network_signal(data.val, current_data, t)
             shown == [status |-> "ok",
                       tor_trend_data |-> PyDict(tor_trend_data),
                       signal_data |-> PyDict(signal_data),
                       bias_text |-> BiasText(tor_trend_data.bias),
                       signal_text |-> SignalText(signal_data.suggestion)]
         IN  IF ~FormatsAsNumber(tor_trend_data.tor_trend)
             THEN [NoView EXCEPT !.status = "error",
                                 !.tor_trend_data = PyDict(tor_trend_data)]
             ELSE IF \E k \in {"active_nodes", "total_nodes", "previous_total",
                               "active_ratio", "trend", "signal"} :
                         ~FormatsAsNumber(signal_data[k])
             THEN [shown EXCEPT !.status = "error", !.signal_text = ""]
             ELSE shown

----------------------------------------------------------------------------
\* get_btc_price

Providers == <<"binance", "coingecko", "coinbase">>

\* the 'price' / 'usd' / 'amount' text of a response: digits, or no number
PriceTexts == {<<>>, <<7>>, <<4, 2>>}

\* what one provider does: requests.get times out, raise_for_status raises,
\* response.json() raises, or the payload arrives with a price text
ProviderOutcomes ==
    [kind : {"timeout", "http_error", "invalid_json"}, text : {<<>>}]
        \cup [kind : {"ok"}, text : PriceTexts]

\* float(text): a value, or ValueError
ParsePrice(text) ==
    IF IsDigits(text) THEN [ok |-> TRUE, value |-> PyFloat(<<FromDigits(text), 1>>)]
    ELSE [ok |-> FALSE, value |-> NoneVal]

\* the try block of provider i; its bare except runs the next provider's
RECURSIVE TryProvider(_, _, _)
TryProvider(i, outcomes, calls) ==
    IF i > Len(Providers) THEN [result |-> NoneVal, calls |-> calls]
    ELSE LET o == outcomes[Providers[i]]
             made == Append(calls, Providers[i])
         IN  IF o.kind = "ok" /\ ParsePrice(o.text).ok
             THEN [result |-> ParsePrice(o.text).value, calls |-> made]
             ELSE TryProvider(i + 1, outcomes, made)

\* a chain that starts at the second provider
get_btc_price_skip(outcomes) == TryProvider(2, outcomes, <<>>)

get_btc_price(outcomes) == TryProvider(1, outcomes, <<>>)

----------------------------------------------------------------------------
\* The script runs

NoQuote == [outcomes |-> <<>>, called |-> FALSE, result |-> NoneVal, calls |-> <<>>]

NoOp ==
    [op |-> "construct", response |-> "none", outcome |-> "none", ret |-> NoneVal,
     raised |-> FALSE, saved |-> FALSE, current_data |-> NoneVal]

\* the entry a fetch at time 0 appended as the i-th of a stored history
SeedSnapshot(i) ==
    Snapshot(i, <<[onion_address |-> TRUE, node_info |-> "list"],
                  [onion_address |-> FALSE, node_info |-> "list"]>>, 0)

SeedHistory(k) == [i \in 1..k |-> SeedSnapshot(i)]

\* lengths of the histories found on disk at the start
SeedLengths == {1}
\* and of those at the capacity
CapSeedLengths == {HistoryCap - 1, HistoryCap}

\* the data file at the start: absent, unreadable, written by an earlier run
\* (completely, or cut short by a failed dump), or holding other JSON
InitialFiles ==
    {MissingFile, UnreadableFile, TextFile(<<OpenDict, CloseDict>>)}
        \cup {TextFile(json_dump(SeedHistory(k))) : k \in SeedLengths}
        \cup {TextFile(Truncated(json_dump(SeedHistory(1))))}

\* BitcoinNodeAnalyzer() has run: the state when main holds its analyzer
Init ==
    /\ file \in InitialFiles
    /\ historical_data = load_historical_data(file)
    /\ now = BaselineHours
    /\ pc = "run"
    /\ steps = 0
    /\ last = NoOp
    /\ view = NoView
    /\ quote = NoQuote

\* a new script run (st.rerun(), or the next interaction): main constructs a
\* new analyzer, which loads the data file
Construct ==
    /\ pc \in {"rerun", "done"}
    /\ historical_data' = load_historical_data(file)
    /\ pc' = "run"
    /\ last' = NoOp
    /\ view' = NoView
    /\ UNCHANGED <<file, now, steps, quote>>

\* the button: update_network_data, then st.rerun() when it returned True;
\* an exception ends the script run
ClickUpdate ==
    /\ pc = "run"
    /\ steps < MaxSteps
    /\ \E c \in FetchCases(now), outcome \in WriteOutcomes :
        LET r == update_network_data(historical_data, file, c.current_data, outcome)
        IN  /\ historical_data' = r.historical_data
            /\ file' = r.file
            /\ last' = [op |-> "update", response |-> c.response,
                        outcome |-> IF r.saved THEN outcome ELSE "none",
                        ret |-> IF r.raised THEN NoneVal
                                ELSE [type |-> "bool", val |-> r.ret],
                        raised |-> r.raised, saved |-> r.saved,
                        current_data |-> c.current_data]
            /\ pc' = IF r.raised THEN "done" ELSE IF r.ret THEN "rerun" ELSE "failed"
    /\ steps' = steps + 1
    /\ UNCHANGED <<now, view, quote>>

\* the rest of main: the page
Render ==
    /\ pc \in {"run", "failed"}
    /\ view' = render(historical_data, now)
    /\ pc' = "done"
    /\ UNCHANGED <<file, historical_data, now, steps, last, quote>>

\* time passes between script runs
Tick ==
    /\ pc = "done"
    /\ now < BaselineHours + MaxTicks * TickHours
    /\ now' = now + TickHours
    /\ UNCHANGED <<file, historical_data, pc, steps, last, view, quote>>

Next == Construct \/ ClickUpdate \/ Render \/ Tick

Spec == Init /\ [][Next]_vars

\* The script runs on a stored history at the capacity: two updates per
\* behaviour, with the pages and reruns that follow them
InitCap ==
    /\ file \in {TextFile(json_dump(SeedHistory(k))) : k \in CapSeedLengths}
    /\ historical_data = load_historical_data(file)
    /\ now = BaselineHours
    /\ pc = "run"
    /\ steps = MaxSteps - 2
    /\ last = NoOp
    /\ view = NoView
    /\ quote = NoQuote

NextCap == Construct \/ ClickUpdate \/ Render

SpecCap == InitCap /\ [][NextCap]_vars

\* The trend functions and the page over drawn histories: every history of
\* up to MaxLen snapshots that fetches at non-decreasing times leave, stored
\* and loaded, rendered at CalcTime
CalcTime == 2 * BaselineHours

\* fetch times: before, at and after the time 24 hours before CalcTime
CalcTimes ==
    {CalcTime - BaselineHours - TickHours, CalcTime - BaselineHours,
     CalcTime - BaselineHours + TickHours}

CalcSnapshots ==
    {Snapshot(total, nodes, t) :
        total \in TotalValues, nodes \in NodeLists, t \in CalcTimes}

SnapshotTime(s) == FromIsoFormat(s.timestamp).time

Chronological(items) ==
    \A i \in 1..(Len(items) - 1) : SnapshotTime(items[i]) <= SnapshotTime(items[i + 1])

InitCalc ==
    /\ \E n \in 0..MaxLen : \E h \in [1..n -> CalcSnapshots] :
          /\ Chronological(h)
          /\ file = TextFile(json_dump(h))
    /\ historical_data = load_historical_data(file)
    /\ now = CalcTime
    /\ pc = "run"
    /\ steps = 0
    /\ last = NoOp
    /\ view = NoView
    /\ quote = NoQuote

NextCalc == Render

SpecCalc == InitCalc /\ [][NextCalc]_vars

\* The network signal on the page over histories of a baseline snapshot and
\* a current one, fetched 24 hours apart, with totals that are zero, small,
\* and large and close to each other
SignalTotals == {0, 3, 30000, 30001}

SignalSnapshots(t) ==
    {Snapshot(total, nodes, t) : total \in SignalTotals, nodes \in NodeLists}

InitSignal ==
    /\ \E previous \in SignalSnapshots(CalcTime - BaselineHours),
          current \in SignalSnapshots(CalcTime) :
          file = TextFile(json_dump(<<previous, current>>))
    /\ historical_data = load_historical_data(file)
    /\ now = CalcTime
    /\ pc = "run"
    /\ steps = 0
    /\ last = NoOp
    /\ view = NoView
    /\ quote = NoQuote

NextSignal == Render

SpecSignal == InitSignal /\ [][NextSignal]_vars

\* The baseline lookups on the page over stored histories of up to
\* MaxLookupLen entries: snapshots fetched at non-decreasing times, and
\* entries whose 'timestamp' is a text that fromisoformat rejects (the empty
\* string), which load_historical_data accepts from the file as it does any
\* list
LookupSnapshots ==
    {Snapshot(total, <<[onion_address |-> TRUE, node_info |-> "list"]>>, t) :
        total \in {2, 3}, t \in CalcTimes}

LookupEntries ==
    LookupSnapshots
        \cup {[s EXCEPT !.timestamp = <<>>] :
                 s \in {e \in LookupSnapshots : SnapshotTime(e) = CalcTime - BaselineHours}}

HasTime(s) == FromIsoFormat(s.timestamp).ok

ChronologicalTimes(items) ==
    \A i \in 1..Len(items) : \A j \in i..Len(items) :
        (HasTime(items[i]) /\ HasTime(items[j]))
            => SnapshotTime(items[i]) <= SnapshotTime(items[j])

InitLookup ==
    /\ \E n \in 0..MaxLookupLen : \E h \in [1..n -> LookupEntries] :
          /\ ChronologicalTimes(h)
          /\ file = TextFile(json_dump(h))
    /\ historical_data = load_historical_data(file)
    /\ now = CalcTime
    /\ pc = "run"
    /\ steps = 0
    /\ last = NoOp
    /\ view = NoView
    /\ quote = NoQuote

NextLookup == Render

SpecLookup == InitLookup /\ [][NextLookup]_vars

\* get_btc_price over every combination of provider outcomes
InitPrice ==
    /\ file = MissingFile
    /\ historical_data = load_historical_data(file)
    /\ now = BaselineHours
    /\ pc = "run"
    /\ steps = 0
    /\ last = NoOp
    /\ view = NoView
    /\ quote \in {[NoQuote EXCEPT !.outcomes = o] :
                      o \in [{Providers[i] : i \in 1..Len(Providers)} -> ProviderOutcomes]}

\* main, 'btc_price = get_btc_price()'
GetBtcPrice ==
    /\ ~quote.called
    /\ LET r == get_btc_price(quote.outcomes)
       IN  quote' = [quote EXCEPT !.called = TRUE, !.result = r.result, !.calls = r.calls]
    /\ UNCHANGED <<file, historical_data, now, pc, steps, last, view>>

NextPrice == GetBtcPrice

SpecPrice == InitPrice /\ [][NextPrice]_vars

----------------------------------------------------------------------------
\* Claims

PyTrue == [type |-> "bool", val |-> TRUE]
PyFalse == [type |-> "bool", val |-> FALSE]

\* the step is a call of update_network_data
IsUpdateStep == steps' = steps + 1

\* C1: a history that starts with at most 1008 entries never holds more than
\* 1008 after update_network_data calls, and a successful call on exactly 1008
\* entries leaves the previous entries without the oldest, in order, followed
\* by the new snapshot.
C1_HistoryCapped ==
    /\ [](Len(historical_data.val) <= HistoryCap)
    /\ [][(IsUpdateStep /\ last'.ret = PyTrue /\ Len(historical_data.val) = HistoryCap)
            => historical_data'.val =
                 Append(Tail(historical_data.val), last'.current_data.val)]_vars

\* C1 witness: a successful update on the stored history of 1008 entries has
\* evicted its first entry.
C1_Witness ==
    /\ last.op = "update"
    /\ last.ret = PyTrue
    /\ Len(historical_data.val) = HistoryCap
    /\ historical_data.val[1] = SeedSnapshot(2)
    /\ PyDict(historical_data.val[HistoryCap]) = last.current_data

\* C2: when fetch_node_data fails, update_network_data returns False without
\* raising, does not call save_historical_data, and leaves the history and
\* the file as they were.
C2_FailedFetchChangesNothing ==
    [][(IsUpdateStep /\ last'.response \in FetchFailures)
         => /\ last'.ret = PyFalse
            /\ ~last'.raised
            /\ ~last'.saved
            /\ historical_data' = historical_data
            /\ file' = file]_vars

\* C2 witness: an update whose fetch timed out, on a stored non-empty
\* history.
C2_Witness ==
    /\ last.op = "update"
    /\ last.response = "timeout"
    /\ last.ret = PyFalse
    /\ Len(historical_data.val) > 0
    /\ file.state = "present"

\* what a history with fewer than 2 entries gives, for every current snapshot
InsufficientResults(tor_bias, suggestion) ==
    \A s \in CalcSnapshots :
        LET tor_trend_data ==
                calculate_tor_trend(historical_data.val, s.tor_percentage, now)
            signal_data == calculate_network_signal(historical_data.val, s, now)
        IN  /\ tor_trend_data.tor_trend = PyInt(0)
            /\ tor_trend_data.bias = tor_bias
            /\ signal_data.signal = PyInt(0)
            /\ signal_data.suggestion = suggestion

\* C3 as stated: with fewer than 2 entries calculate_tor_trend returns trend
\* 0 with classification NEUTRAL and calculate_network_signal returns signal
\* 0 with classification SIDEWAYS.
C3_AsStated ==
    (Len(historical_data.val) < 2 /\ view.status # "none") =>
        InsufficientResults("NEUTRAL", "SIDEWAYS")

\* C3 amended: with fewer than 2 entries calculate_tor_trend returns trend 0
\* and calculate_network_signal returns signal 0, both with the
\* classification INSUFFICIENT_DATA, for every current snapshot; the page
\* shows that tor classification as a NEUTRAL market bias.
C3_InsufficientData ==
    Len(historical_data.val) < 2 =>
        /\ InsufficientResults("INSUFFICIENT_DATA", "INSUFFICIENT_DATA")
        /\ view.status \in {"ok", "error"} =>
             /\ view.tor_trend_data.val.tor_trend = PyInt(0)
             /\ view.tor_trend_data.val.bias = "INSUFFICIENT_DATA"
             /\ view.signal_data.val.signal = PyInt(0)
             /\ view.signal_data.val.suggestion = "INSUFFICIENT_DATA"
             /\ view.bias_text = "NEUTRAL"

\* C3 witness: the page was rendered from a history of one snapshot.
C3_Witness ==
    /\ Len(historical_data.val) = 1
    /\ pc = "done"
    /\ view.tor_trend_data # NoneVal
    /\ view.signal_data # NoneVal

\* the providers that succeed: the request, the status check, the JSON
\* parse and float() all pass
Succeeds(p) ==
    /\ quote.outcomes[p].kind = "ok"
    /\ IsDigits(quote.outcomes[p].text)

\* C4: get_btc_price returns the parsed price of the first of Binance,
\* CoinGecko, Coinbase that succeeds, calls the providers up to that one and
\* none after it, and returns None exactly when all three fail.
C4_FirstProviderWins ==
    quote.called =>
        /\ \A i \in 1..3 :
             (Succeeds(Providers[i]) /\ \A j \in 1..(i - 1) : ~Succeeds(Providers[j]))
                 => /\ quote.result =
                         PyFloat(<<FromDigits(quote.outcomes[Providers[i]].text), 1>>)
                    /\ quote.calls = SubSeq(<<"binance", "coingecko", "coinbase">>, 1, i)
        /\ (quote.result = NoneVal) <=> (\A i \in 1..3 : ~Succeeds(Providers[i]))
        /\ quote.result.type \in {"float", "NoneType"}

\* C4 witness: Binance timed out, CoinGecko answered 42, Coinbase was not
\* called.
C4_Witness ==
    /\ quote.called
    /\ quote.outcomes["binance"].kind = "timeout"
    /\ quote.outcomes["coingecko"] = [kind |-> "ok", text |-> <<4, 2>>]
    /\ quote.outcomes["coinbase"].kind = "ok"
    /\ quote.result = PyFloat(<<42, 1>>)
    /\ quote.calls = <<"binance", "coingecko">>

\* the directional classifications a rendered page states: the market bias
\* line and the signal line
PageClassifications ==
    {IF view.bias_text = "BUY BIAS" THEN "BUY"
     ELSE IF view.bias_text = "SELL BIAS" THEN "SELL" ELSE "SIDEWAYS",
     IF view.signal_text = "STRONG BUY" THEN "BUY"
     ELSE IF view.signal_text = "STRONG SELL" THEN "SELL" ELSE "SIDEWAYS"}

InHistory(s, data) == \E j \in 1..Len(data.val) : data.val[j] = s

\* C6: every snapshot in the history comes from a successful fetch, and a
\* snapshot of the history stays in it until an update cuts it off because
\* the length exceeded 1008, across updates, failed writes and reruns.
C6_AsStated ==
    [][/\ \A j \in 1..Len(historical_data'.val) :
            \/ InHistory(historical_data'.val[j], historical_data)
            \/ IsUpdateStep /\ PyDict(historical_data'.val[j]) = last'.current_data
       /\ \A i \in 1..Len(historical_data.val) :
            \/ InHistory(historical_data.val[i], historical_data')
            \/ IsUpdateStep /\ Len(historical_data.val) + 1 > HistoryCap]_vars

\* C7: when the fetch succeeds and the write of save_historical_data fails,
\* update_network_data returns True without raising and the history ends
\* with the new snapshot.
C7_WriteFailureSwallowed ==
    (last.op = "update" /\ last.outcome \in {"open_fails", "dump_fails"}) =>
        /\ last.current_data # NoneVal
        /\ last.ret = PyTrue
        /\ ~last.raised
        /\ pc = "rerun"
        /\ Len(historical_data.val) > 0
        /\ PyDict(historical_data.val[Len(historical_data.val)]) = last.current_data

\* C7 witness: an update whose dump failed part-way, on a non-empty history.
C7_Witness ==
    /\ last.op = "update"
    /\ last.outcome = "dump_fails"
    /\ last.ret = PyTrue
    /\ Len(historical_data.val) >= 2
    /\ json_load(file.text).ok = FALSE

\* the file holds a list of snapshot objects
HoldsSnapshotList(f) ==
    /\ f.state = "present"
    /\ Len(f.text) >= 2
    /\ f.text[1].tok = "["
    /\ f.text[Len(f.text)].tok = "]"
    /\ \A i \in 2..(Len(f.text) - 1) : f.text[i].tok = "object"

\* C8: right after load_historical_data, a data file that is missing,
\* unreadable or no well-formed list of snapshots (other valid JSON
\* included) has given the empty list.
C8_AsStated ==
    (pc = "run" /\ ~HoldsSnapshotList(file)) => historical_data = PyList(<<>>)

\* C9: after a successful update whose write succeeded, loading the data
\* file gives exactly the in-memory history.
C9_RoundTrip ==
    (last.op = "update" /\ last.ret = PyTrue /\ last.outcome = "written") =>
        /\ load_historical_data(file) = historical_data
        /\ json_load(file.text).ok

\* C9 witness: a written history of two snapshots, the last one with a tor
\* percentage that differs from its active ratio.
C9_Witness ==
    /\ last.op = "update"
    /\ last.outcome = "written"
    /\ Len(historical_data.val) >= 2
    /\ historical_data.val[Len(historical_data.val)].tor_percentage = <<50, 1>>
    /\ file.text[Len(file.text) - 1].tor_percentage = <<<<5, 0>>, <<1>>>>

IsZero(v) == (v.type = "int" /\ v.val = 0) \/ (v.type = "float" /\ v.val = Zero)

\* the page's tor trend was computed from a baseline equal to the current
\* tor percentage
EqualBaseline ==
    /\ view.status \in {"ok", "error"}
    /\ Len(historical_data.val) >= 2
    /\ get_previous_tor_percentage(historical_data.val, now) =
         PyFloat(historical_data.val[Len(historical_data.val)].tor_percentage)

\* C10 as stated: with at least 2 entries and a baseline tor percentage equal
\* to the current one, 0 included, calculate_tor_trend returns trend 0 with
\* classification NEUTRAL.
C10_AsStated ==
    EqualBaseline =>
        /\ IsZero(view.tor_trend_data.val.tor_trend)
        /\ view.tor_trend_data.val.bias = "NEUTRAL"

\* C10 amended: with at least 2 entries and a baseline tor percentage equal
\* to the current one, calculate_tor_trend returns trend 0; the
\* classification is NEUTRAL when that percentage is above 0 and
\* INSUFFICIENT_DATA when it is 0.
C10_EqualPercentage ==
    EqualBaseline =>
        /\ IsZero(view.tor_trend_data.val.tor_trend)
        /\ view.tor_trend_data.val.bias =
             IF historical_data.val[Len(historical_data.val)].tor_percentage = Zero
             THEN "INSUFFICIENT_DATA" ELSE "NEUTRAL"

\* C10 witness: a page rendered from two snapshots that both have a tor
\* percentage of 50.
C10_Witness ==
    /\ EqualBaseline
    /\ historical_data.val[Len(historical_data.val)].tor_percentage = <<50, 1>>
    /\ view.tor_trend_data.val.bias = "NEUTRAL"

\* the sign of an integer, and of a number on the page
IntSign(n) == IF n > 0 THEN 1 ELSE IF n < 0 THEN 0 - 1 ELSE 0

NumSign(v) == IF v.type = "int" THEN IntSign(v.val) ELSE IntSign(v.val[1])

\* the page's network signal was computed for a current snapshot with a
\* positive active ratio and a baseline total
PositiveRatioSignal ==
    /\ view.status \in {"ok", "error"}
    /\ Len(historical_data.val) >= 2
    /\ FracLess(Zero, historical_data.val[Len(historical_data.val)].active_ratio)
    /\ get_previous_total_nodes(historical_data.val, now) # NoneVal

\* current total_nodes - previous total_nodes
TotalDifference ==
    historical_data.val[Len(historical_data.val)].total_nodes
        - get_previous_total_nodes(historical_data.val, now).val

\* C11 as stated: whenever the current active_ratio is above 0, the signal
\* returned by calculate_network_signal has the sign of (current total_nodes
\* - previous total_nodes).
C11_AsStated ==
    PositiveRatioSignal =>
        NumSign(view.signal_data.val.signal) = IntSign(TotalDifference)

\* C11 amended: whenever the current active_ratio is above 0, the returned
\* signal is 0 when the previous total is 0, and otherwise it is
\* active_ratio * (difference / previous total) rounded to 4 decimals: it
\* has the sign of the difference when that product is above 0.00005 in
\* absolute value and is 0 when it is not, so it never has the opposite
\* sign.
C11_SignOfSignal ==
    PositiveRatioSignal =>
        LET current_data == historical_data.val[Len(historical_data.val)]
            previous_total == get_previous_total_nodes(historical_data.val, now).val
            signal == view.signal_data.val.signal
        IN  IF previous_total = 0
            THEN signal = PyInt(0)
            ELSE LET product == FracMul(current_data.active_ratio,
                                        Frac(TotalDifference, previous_total))
                     magnitude == <<Abs(product[1]), product[2]>>
                 IN  /\ signal.type = "float"
                     /\ NumSign(signal) =
                          IF FracLess(<<1, 20000>>, magnitude)
                          THEN IntSign(TotalDifference) ELSE 0

\* C11 witness: a page whose current snapshot has a positive active ratio
\* and a total that grew from 3 to 30000, with a positive signal.
C11_Witness ==
    /\ PositiveRatioSignal
    /\ TotalDifference = 29997
    /\ NumSign(view.signal_data.val.signal) = 1
    /\ view.signal_data.val.suggestion = "BUY"

\* the data-model invariants of one snapshot
DataModelInvariants(s) ==
    /\ s.total_nodes \in Nat
    /\ s.active_nodes \in Nat
    /\ s.tor_nodes \in Nat
    /\ s.tor_nodes <= s.total_nodes
    /\ ~FracLess(s.tor_percentage, Zero)
    /\ ~FracLess(<<100, 1>>, s.tor_percentage)
    /\ ~FracLess(s.active_ratio, Zero)
    /\ ~FracLess(<<1, 1>>, s.active_ratio)

\* C12: every snapshot that fetch_node_data returns for a response that
\* parses has non-negative integer counts, tor_nodes <= total_nodes, a
\* tor_percentage in [0,100] and an active_ratio in [0,1], and so has the
\* entry that update_network_data appends to the history.
C12_AsStated ==
    (last.op = "update" /\ last.current_data # NoneVal) =>
        /\ DataModelInvariants(last.current_data.val)
        /\ (last.ret = PyTrue =>
              DataModelInvariants(historical_data.val[Len(historical_data.val)]))

\* the entries the lookups consider: all but the most recent, with a
\* parsable timestamp
Candidates(items) == {i \in 1..(Len(items) - 1) : HasTime(items[i])}

\* the distance of entry i to the time 24 hours before t
Distance(items, i, t) == Abs(SnapshotTime(items[i]) - (t - BaselineHours))

\* entry i is a candidate at the least distance, the first of them in the
\* history
IsNearest(items, i, t) ==
    /\ i \in Candidates(items)
    /\ \A j \in Candidates(items) :
          \/ Distance(items, i, t) < Distance(items, j, t)
          \/ (Distance(items, i, t) = Distance(items, j, t) /\ i <= j)

\* both lookups return the fields of entry i
BothReturn(items, i, t) ==
    /\ get_previous_total_nodes(items, t) = PyInt(items[i].total_nodes)
    /\ get_previous_tor_percentage(items, t) = PyFloat(items[i].tor_percentage)

BothReturnNone(items, t) ==
    /\ get_previous_total_nodes(items, t) = NoneVal
    /\ get_previous_tor_percentage(items, t) = NoneVal

\* C13 as stated: the lookups return None for a history of fewer than 2
\* entries; otherwise both return the field of one entry, never the most
\* recent, at the least distance to (now - 24 hours) among the entries but
\* the most recent that have a parsable timestamp, the first on a tie;
\* read on the histories the page was rendered from.
C13_AsStated ==
    view.status # "none" =>
        IF Len(historical_data.val) < 2
        THEN BothReturnNone(historical_data.val, now)
        ELSE \E i \in 1..(Len(historical_data.val) - 1) :
                 /\ IsNearest(historical_data.val, i, now)
                 /\ BothReturn(historical_data.val, i, now)

\* C13 amended: the lookups return None for a history of fewer than 2
\* entries, and also when no entry but the most recent has a parsable
\* timestamp; otherwise both return the field of one entry, never the most
\* recent, at the least distance to (now - 24 hours) among the entries but
\* the most recent that have a parsable timestamp, the first on a tie.  The
\* page shows the total found, or no previous data when it is None or 0.
C13_NearestBaseline ==
    /\ IF Len(historical_data.val) < 2 \/ Candidates(historical_data.val) = {}
       THEN BothReturnNone(historical_data.val, now)
       ELSE \E i \in 1..(Len(historical_data.val) - 1) :
                /\ IsNearest(historical_data.val, i, now)
                /\ BothReturn(historical_data.val, i, now)
    /\ view.status \in {"ok", "error"} =>
          view.signal_data.val.previous_total =
              IF Candidates(historical_data.val) = {}
              THEN PyStr("No previous data")
              ELSE get_previous_total_nodes(historical_data.val, now)

\* C13 witness: a page over three entries, the first 12 hours before and
\* the second 12 hours after the target time, with different totals: the
\* first one is the baseline.
C13_Witness ==
    /\ view.status = "ok"
    /\ Len(historical_data.val) = 3
    /\ Candidates(historical_data.val) = {1, 2}
    /\ Distance(historical_data.val, 1, now) = Distance(historical_data.val, 2, now)
    /\ historical_data.val[1].total_nodes = 2
    /\ historical_data.val[2].total_nodes = 3
    /\ view.signal_data.val.previous_total = PyInt(2)
    /\ view.tor_trend_data.val.previous_tor = PyFloat(<<50, 1>>)

\* C14: a page rendered over a history of exactly one snapshot runs to its
\* end: every field of the calculate_network_signal result that main formats
\* as a number is a number.
C14_AsStated ==
    (pc = "done" /\ view.status # "none" /\ Len(historical_data.val) = 1) =>
        /\ view.status = "ok"
        /\ \A k \in {"active_nodes", "total_nodes", "previous_total",
                      "active_ratio", "trend", "signal"} :
              FormatsAsNumber(view.signal_data.val[k])

====
